---- MODULE Spec2Model ----
(***************************************************************************)
(* Escape_dungeon.py: a single-player text adventure.  The state is the    *)
(* Player object and the world dictionary built by create_world; one turn  *)
(* of main's loop reads a command line (and, inside the handlers, a        *)
(* numeric selection and a y/n confirmation) and runs one handler to       *)
(* completion.                                                             *)
(***************************************************************************)
EXTENDS Integers, Sequences, FiniteSets, TLC

VARIABLES
    player,     \* the Player object: name, inventory, location, max_inventory
    world,      \* the dict returned by create_world, mutated in place
    running,    \* main's while-loop: "running", "quit" or "victory"
    command,    \* the command line last read by main (before .lower())
    choice,     \* the selection line last read by a handler in this turn
    answer,     \* the y/n line last read by handle_movement_execution
    error,      \* the GameError caught by main in this turn, or "none"
    output,     \* the messages printed by the handlers in this turn
    script      \* the turns still to be fed to the loop by a scripted run

vars == <<player, world, running, command, choice, answer, error, output, script>>

----------------------------------------------------------------------------
(* Bounds of the model. *)

\* numeric selections typed by the user range over -MaxChoice..MaxChoice
MaxChoice == 3

\* number of different character names typed at the first prompt
NumNames == 2

----------------------------------------------------------------------------
(* Values. *)

None == "None"
NotRead == "<not read>"
NoError == "none"
InventoryFullError == "InventoryFullError"
InvalidCommandError == "InvalidCommandError"

\* default of Player.__init__'s max_inventory parameter
DefaultMaxInventory == 4

NoObstacle == [type |-> None, required_item |-> None, direction |-> None]

mkObstacle(t, item, d) == [type |-> t, required_item |-> item, direction |-> d]

mkRoom(exits, items, obstacle) == [exits |-> exits, items |-> items, obstacle |-> obstacle]

Rooms ==
    {"Dungeon Cell", "Corridor", "Guard Room", "Storage Room", "Kitchen",
     "Armory", "Library", "Study", "Secret Passage", "Torture Chamber",
     "Treasury", "Courtyard", "Exit Gate"}

\* exits are kept as a sequence of <<direction, target>>: dict insertion order
create_world ==
    [r \in Rooms |->
        CASE r = "Dungeon Cell" ->
                mkRoom(<< <<"forward", "Corridor">> >>, <<"Crowbar">>,
                       mkObstacle("locked", "Cell Key", "forward"))
          [] r = "Corridor" ->
                mkRoom(<< <<"forward", "Guard Room">>, <<"right", "Storage Room">> >>,
                       <<>>, NoObstacle)
          [] r = "Guard Room" ->
                mkRoom(<< <<"back", "Corridor">>, <<"forward", "Kitchen">> >>, <<>>,
                       mkObstacle("guard", "Torch", "forward"))
          [] r = "Storage Room" ->
                mkRoom(<< <<"back", "Corridor">>, <<"left", "Library">> >>, <<"Rope">>,
                       mkObstacle("locked", "Iron Key", "left"))
          [] r = "Kitchen" ->
                mkRoom(<< <<"back", "Guard Room">>, <<"right", "Armory">> >>,
                       <<"Torch", "Food">>, NoObstacle)
          [] r = "Armory" ->
                mkRoom(<< <<"back", "Kitchen">>, <<"north", "Treasury">> >>, <<>>,
                       mkObstacle("chest", "Crowbar", None))
          [] r = "Library" ->
                mkRoom(<< <<"right", "Storage Room">>, <<"forward", "Study">> >>,
                       <<"Map", "Book">>, NoObstacle)
          [] r = "Study" ->
                mkRoom(<< <<"back", "Library">>, <<"down", "Secret Passage">> >>,
                       <<"Note">>, NoObstacle)
          [] r = "Secret Passage" ->
                mkRoom(<< <<"up", "Study">>, <<"forward", "Torture Chamber">> >>,
                       <<"Gem">>, NoObstacle)
          [] r = "Torture Chamber" ->
                mkRoom(<< <<"back", "Secret Passage">>, <<"across", "Courtyard">> >>, <<>>,
                       mkObstacle("pit", "Rope", "across"))
          [] r = "Treasury" ->
                mkRoom(<< <<"south", "Armory">> >>, <<"Gold Coin">>,
                       mkObstacle("guard", "Gem", None))
          [] r = "Courtyard" ->
                mkRoom(<< <<"forward", "Exit Gate">> >>, <<>>,
                       mkObstacle("gate", "Cell Key", "forward"))
          [] r = "Exit Gate" ->
                mkRoom(<<>>, <<>>, NoObstacle)]

----------------------------------------------------------------------------
(* Python list and string primitives used by the program. *)

\* x in lst
In(x, lst) == \E i \in DOMAIN lst : lst[i] = x

\* faulty variant of lst.remove(x): the last element is deleted (lst.pop())
ListRemoveLast(lst, x) == SubSeq(lst, 1, Len(lst) - 1)

\* faulty variant of lst.remove(x): the element is left in the list
ListRemoveNothing(lst, x) == lst

\* lst.remove(x): deletes the first occurrence (callers check membership)
ListRemove(lst, x) ==
    IF ~In(x, lst) THEN lst
    ELSE LET i == CHOOSE j \in DOMAIN lst :
                      lst[j] = x /\ \A k \in 1..(j - 1) : lst[k] # x
         IN  SubSeq(lst, 1, i - 1) \o SubSeq(lst, i + 1, Len(lst))

\* lst[k] succeeds for -len <= k < len; anything else is an IndexError
IndexOk(lst, k) == -Len(lst) <= k /\ k < Len(lst)

\* lst[k] with Python's 0-based and negative indexing
PyIndex(lst, k) == IF k >= 0 THEN lst[k + 1] ELSE lst[Len(lst) + k + 1]

\* the numbers a line of input can denote
Numbers == (-MaxChoice)..MaxChoice

\* int(line) raises ValueError unless the line is a decimal numeral
IsNumeral(line) == \E k \in Numbers : ToString(k) = line

\* int(line)
int(line) == CHOOSE k \in Numbers : ToString(k) = line

\* line.lower() on the lines the model types
lower(line) ==
    CASE line = "LOOK" -> "look"
      [] line = "Q" -> "q"
      [] line = "Y" -> "y"
      [] OTHER -> line

----------------------------------------------------------------------------
(* class Player. *)

\* Player.__init__
Player(name, max_inventory) ==
    [name |-> name, inventory |-> <<>>, location |-> "Dungeon Cell",
     max_inventory |-> max_inventory]

\* faulty variant of add_item: no capacity test
add_item_unchecked(p, item) ==
    [player |-> [p EXCEPT !.inventory = Append(@, item)], raised |-> NoError]

\* faulty variant of add_item: <= for <
add_item_off_by_one(p, item) ==
    IF Len(p.inventory) <= p.max_inventory
    THEN [player |-> [p EXCEPT !.inventory = Append(@, item)], raised |-> NoError]
    ELSE [player |-> p, raised |-> InventoryFullError]

\* Player.add_item: the player afterwards, and the exception raised if any
add_item(p, item) ==
    IF Len(p.inventory) < p.max_inventory
    THEN [player |-> [p EXCEPT !.inventory = Append(@, item)], raised |-> NoError]
    ELSE [player |-> p, raised |-> InventoryFullError]

\* Player.has_item
has_item(p, item) == In(item, p.inventory)

\* Player.remove_item
remove_item(p, item) ==
    IF In(item, p.inventory)
    THEN [p EXCEPT !.inventory = ListRemove(@, item)]
    ELSE p

----------------------------------------------------------------------------
(* The handlers.  Each maps the context g of a turn (player, world, what   *)
(* was printed, the exception raised, the lines read) to the context when  *)
(* the handler returns or raises.                                          *)

Context(p, w) ==
    [player |-> p, world |-> w, out |-> <<>>, raised |-> NoError,
     choice |-> NotRead, answer |-> NotRead]

\* print(msg)
Say(g, msg) == [g EXCEPT !.out = Append(@, msg)]

\* raise kind
Raise(g, kind) == [g EXCEPT !.raised = kind]

\* faulty variant of handle_locked_chest: the test of the location is missing
handle_locked_chest_anywhere(g, item) ==
    IF /\ item = "Crowbar"
       /\ g.world["Armory"].obstacle # NoObstacle
       /\ g.world["Armory"].obstacle.type = "chest"
    THEN [g |-> [Say(Say(g, "You pry open the strongbox"), "You found a Cell Key and an Iron Key")
                   EXCEPT !.world["Armory"].items = Append(Append(@, "Cell Key"), "Iron Key"),
                          !.world["Armory"].obstacle = NoObstacle,
                          !.player = remove_item(@, "Crowbar")],
          ret |-> TRUE]
    ELSE [g |-> g, ret |-> FALSE]

\* handle_locked_chest: g afterwards and the value returned
handle_locked_chest(g, item) ==
    IF /\ g.player.location = "Armory"
       /\ item = "Crowbar"
       /\ g.world["Armory"].obstacle # NoObstacle
       /\ g.world["Armory"].obstacle.type = "chest"
    THEN [g |-> [Say(Say(g, "You pry open the strongbox"), "You found a Cell Key and an Iron Key")
                   EXCEPT !.world["Armory"].items = Append(Append(@, "Cell Key"), "Iron Key"),
                          !.world["Armory"].obstacle = NoObstacle,
                          !.player = remove_item(@, "Crowbar")],
          ret |-> TRUE]
    ELSE [g |-> g, ret |-> FALSE]

\* faulty variant of handle_special_interactions: the guard of the Treasury
\* steps aside whether or not the player holds the Gem
handle_special_interactions_without_gem(g) ==
    IF g.player.location = "Treasury"
    THEN [Say(g, "The guard is mesmerized") EXCEPT !.world["Treasury"].obstacle = NoObstacle]
    ELSE g

\* faulty variant of handle_special_interactions: without the Gem the guard
\* of the Treasury takes up his post again
handle_special_interactions_guard_returns(g) ==
    IF g.player.location = "Treasury"
    THEN IF has_item(g.player, "Gem")
         THEN [Say(g, "The guard is mesmerized") EXCEPT !.world["Treasury"].obstacle = NoObstacle]
         ELSE [g EXCEPT !.world["Treasury"].obstacle = create_world["Treasury"].obstacle]
    ELSE g

\* handle_special_interactions
handle_special_interactions(g) ==
    LET g1 == IF g.player.location = "Library" /\ In("Book", g.world["Library"].items)
              THEN Say(g, "One of the books looks interesting") ELSE g
        g2 == IF g1.player.location = "Study" /\ In("Note", g1.world["Study"].items)
              THEN Say(g1, "A note on the desk") ELSE g1
    IN  IF g2.player.location = "Treasury" /\ has_item(g2.player, "Gem")
        THEN [Say(g2, "The guard is mesmerized") EXCEPT !.world["Treasury"].obstacle = NoObstacle]
        ELSE g2

\* handle_look
handle_look(g) ==
    LET current_room == g.world[g.player.location]
        g1 == Say(g, "description")
        g2 == IF current_room.items # <<>> THEN Say(g1, "You see") ELSE Say(g1, "no items of interest")
        g3 == IF current_room.obstacle # NoObstacle THEN Say(g2, "obstacle message") ELSE g2
    IN  handle_special_interactions(g3)

\* handle_take, fed `line` at its prompt
handle_take(g, line) ==
    LET loc == g.player.location
        items == g.world[loc].items
        read == [g EXCEPT !.choice = line]
    IN  IF items = <<>> THEN Say(g, "nothing to take")
        ELSE IF ~IsNumeral(line) THEN Say(read, "Invalid choice")
        ELSE IF int(line) = 0 THEN read
        ELSE IF ~IndexOk(items, int(line) - 1) THEN Say(read, "Invalid choice")
        ELSE LET item == PyIndex(items, int(line) - 1)
                 added == add_item(g.player, item)
             IN  IF added.raised # NoError THEN Raise(read, added.raised)
                 ELSE LET took == [Say(read, "You picked up")
                                     EXCEPT !.player = added.player,
                                            !.world[loc].items = ListRemove(@, item)]
                      IN  IF item = "Book" THEN Say(took, "You opened the book")
                          ELSE IF item = "Note" THEN Say(took, "The note reveals")
                          ELSE took

\* faulty variant of Resolves: any item clears the obstacle
ResolvesAny(obstacle, item) == obstacle # NoObstacle

\* handle_use_item's test that the item can be used on the current obstacle
Resolves(obstacle, item) == obstacle # NoObstacle /\ item = obstacle.required_item

\* faulty variant of Consumable: every item is removed after use
ConsumableAny(item) == TRUE

\* handle_use_item's list of the items that are removed after use
Consumable(item) == item \in {"Cell Key", "Iron Key"}

\* handle_use_item, fed `line` at its prompt if it prompts
handle_use_item(g, required_item, line) ==
    IF g.player.inventory = <<>> THEN Say(g, "no items to use")
    ELSE IF required_item # None /\ ~has_item(g.player, required_item)
    THEN Say(g, "You need the required item")
    ELSE
    LET direct == required_item # None /\ has_item(g.player, required_item)
        read == IF direct THEN g ELSE [g EXCEPT !.choice = line]
    IN  IF ~direct /\ ~IsNumeral(line) THEN Say(read, "Invalid choice")
        ELSE IF ~direct /\ int(line) = 0 THEN read
        ELSE IF ~direct /\ ~IndexOk(g.player.inventory, int(line) - 1)
        THEN Say(read, "Invalid choice")
        ELSE
        LET item_to_use == IF direct THEN required_item
                           ELSE PyIndex(g.player.inventory, int(line) - 1)
            chest == handle_locked_chest(read, item_to_use)
            loc == read.player.location
            obstacle == read.world[loc].obstacle
        IN  IF chest.ret THEN chest.g
            ELSE IF Resolves(obstacle, item_to_use)
            THEN LET cleared == [Say(read, "used successfully")
                                   EXCEPT !.world[loc].obstacle = NoObstacle]
                 IN  IF Consumable(item_to_use)
                     THEN [cleared EXCEPT !.player = remove_item(@, item_to_use)]
                     ELSE cleared
            ELSE Say(read, "nothing happened")

\* faulty variant of Blocks: only an obstacle without direction blocks
BlocksOnlyDirectionless(obstacle, direction) ==
    obstacle # NoObstacle /\ obstacle.direction = None

\* faulty variant of Blocks: an obstacle without direction blocks nothing
BlocksOnlyItsDirection(obstacle, direction) ==
    obstacle # NoObstacle /\ obstacle.direction = direction

\* handle_movement_execution's test that the obstacle stops a move
Blocks(obstacle, direction) ==
    obstacle # NoObstacle /\ (obstacle.direction = direction \/ obstacle.direction = None)

\* faulty variant of handle_movement_execution: handle_use_item is called
\* without the required item, so it asks which item to use
handle_movement_execution_no_hint(g, current_room, direction, yn) ==
    LET obstacle == current_room.obstacle
    IN  IF Blocks(obstacle, direction)
        THEN LET asked == [Say(g, "obstacle message") EXCEPT !.answer = yn]
             IN  IF lower(yn) = "y"
                 THEN handle_use_item(asked, None, NotRead)
                 ELSE asked
        ELSE LET exit == CHOOSE e \in {current_room.exits[i] : i \in DOMAIN current_room.exits} :
                             e[1] = direction
             IN  [Say(g, "You move") EXCEPT !.player.location = exit[2]]

\* faulty variant of handle_movement_execution: the direction, not the exit's
\* target, becomes the location
handle_movement_execution_to_direction(g, current_room, direction, yn) ==
    LET obstacle == current_room.obstacle
    IN  IF Blocks(obstacle, direction)
        THEN LET asked == [Say(g, "obstacle message") EXCEPT !.answer = yn]
             IN  IF lower(yn) = "y"
                 THEN handle_use_item(asked, obstacle.required_item, NotRead)
                 ELSE asked
        ELSE [Say(g, "You move") EXCEPT !.player.location = direction]

\* faulty variant of handle_movement_execution: no return after the blocked
\* branch, so the player walks on once the item has cleared the obstacle
handle_movement_execution_walks_on(g, current_room, direction, yn) ==
    LET obstacle == current_room.obstacle
        exit == CHOOSE e \in {current_room.exits[i] : i \in DOMAIN current_room.exits} :
                    e[1] = direction
    IN  IF Blocks(obstacle, direction)
        THEN LET asked == [Say(g, "obstacle message") EXCEPT !.answer = yn]
                 used == handle_use_item(asked, obstacle.required_item, NotRead)
             IN  IF lower(yn) # "y" THEN asked
                 ELSE IF used.world[used.player.location].obstacle = NoObstacle
                 THEN [Say(used, "You move") EXCEPT !.player.location = exit[2]]
                 ELSE used
        ELSE [Say(g, "You move") EXCEPT !.player.location = exit[2]]

\* handle_movement_execution, fed `yn` at its prompt if it prompts
handle_movement_execution(g, current_room, direction, yn) ==
    LET obstacle == current_room.obstacle
    IN  IF Blocks(obstacle, direction)
        THEN LET asked == [Say(g, "obstacle message") EXCEPT !.answer = yn]
             IN  IF lower(yn) = "y"
                 THEN handle_use_item(asked, obstacle.required_item, NotRead)
                 ELSE asked
        ELSE LET exit == CHOOSE e \in {current_room.exits[i] : i \in DOMAIN current_room.exits} :
                             e[1] = direction
             IN  [Say(g, "You move") EXCEPT !.player.location = exit[2]]

\* faulty variant of handle_move: a bad selection is answered as handle_take
\* answers it, with a message and no InvalidCommandError
handle_move_lenient(g, line, yn) ==
    LET current_room == g.world[g.player.location]
        available_exits == [i \in DOMAIN current_room.exits |-> current_room.exits[i][1]]
        read == [g EXCEPT !.choice = line]
    IN  IF available_exits = <<>> THEN Say(g, "no exits")
        ELSE IF ~IsNumeral(line) THEN Say(read, "Invalid choice")
        ELSE IF int(line) = 0 THEN read
        ELSE IF ~(0 <= int(line) - 1 /\ int(line) - 1 < Len(available_exits))
        THEN Say(read, "Invalid choice")
        ELSE handle_movement_execution(read, current_room, available_exits[int(line)], yn)

\* handle_move, fed `line` and `yn` at its prompts
handle_move(g, line, yn) ==
    LET current_room == g.world[g.player.location]
        available_exits == [i \in DOMAIN current_room.exits |-> current_room.exits[i][1]]
        read == [g EXCEPT !.choice = line]
    IN  IF available_exits = <<>> THEN Say(g, "no exits")
        ELSE IF ~IsNumeral(line) THEN Raise(read, InvalidCommandError)
        ELSE IF int(line) = 0 THEN read
        ELSE IF ~(0 <= int(line) - 1 /\ int(line) - 1 < Len(available_exits))
        THEN Raise(read, InvalidCommandError)
        ELSE handle_movement_execution(read, current_room, available_exits[int(line)], yn)

\* Player.show_inventory
show_inventory(g) ==
    IF g.player.inventory # <<>> THEN Say(g, "Inventory") ELSE Say(g, "Your bag is empty")

----------------------------------------------------------------------------
(* main: one iteration of the while loop. *)

QuitWords == {"quit", "q"}

\* the dispatch on the lowered command line
Dispatch(g, cmd, line, yn) ==
    CASE cmd = "look" -> handle_look(g)
      [] cmd = "take" -> handle_take(g, line)
      [] cmd = "move" -> handle_move(g, line, yn)
      [] cmd = "use" -> handle_use_item(g, None, line)
      [] cmd \in {"inventory", "i"} -> show_inventory(g)
      [] cmd \in QuitWords -> Say(g, "Thanks for playing")
      [] cmd \in {"help", "h"} -> Say(g, "Commands")
      [] OTHER -> Raise(g, InvalidCommandError)

\* faulty variant of Victory: the check after the dispatch is missing
VictoryNever(g) == FALSE

\* main's victory check, reached when the handler raised no GameError
Victory(g) == g.raised = NoError /\ g.player.location = "Exit Gate"

\* the loop body: read a command, dispatch, check for victory, catch GameError
Turn(typed, line, yn) ==
    /\ running = "running"
    /\ \E g \in {Dispatch(Context(player, world), lower(typed), line, yn)} :
       LET quit == lower(typed) \in QuitWords
           won == ~quit /\ Victory(g)
       IN  /\ player' = g.player
           /\ world' = g.world
           /\ command' = typed
           /\ choice' = g.choice
           /\ answer' = g.answer
           /\ error' = g.raised
           /\ output' = IF won THEN Append(g.out, "VICTORY") ELSE g.out
           /\ running' = IF quit THEN "quit" ELSE IF won THEN "victory" ELSE "running"

----------------------------------------------------------------------------
(* The console: what the user may type. *)

Names == {ToString(k) : k \in 1..NumNames}

Lines == {ToString(k) : k \in Numbers} \cup {"x"}

Answers == {"y", "Y", "n"}

Interactive == [scenario |-> "interactive", turns |-> <<>>]

\* main up to the loop: the name prompt, Player(player_name), create_world()
Init ==
    /\ \E name \in Names : player = Player(name, DefaultMaxInventory)
    /\ world = create_world
    /\ running = "running"
    /\ command = NotRead
    /\ choice = NotRead
    /\ answer = NotRead
    /\ error = NoError
    /\ output = <<>>
    /\ script = Interactive

\* the lines typed in one turn: <<command, selection, confirmation>>
LookInputs == {<<typed, NotRead, NotRead>> : typed \in {"look", "LOOK"}}

TakeInputs == {<<"take", line, NotRead>> : line \in Lines}

MoveInputs == {<<"move", line, yn>> : line \in Lines, yn \in Answers}

UseInputs == {<<"use", line, NotRead>> : line \in Lines}

InventoryInputs == {<<typed, NotRead, NotRead>> : typed \in {"inventory", "i"}}

QuitInputs == {<<typed, NotRead, NotRead>> : typed \in {"quit", "q", "Q"}}

HelpInputs == {<<typed, NotRead, NotRead>> : typed \in {"help", "h"}}

UnknownInputs == {<<typed, NotRead, NotRead>> : typed \in {"dance", ""}}

Look == \E in \in LookInputs : Turn(in[1], in[2], in[3]) /\ UNCHANGED script

Take == \E in \in TakeInputs : Turn(in[1], in[2], in[3]) /\ UNCHANGED script

Move == \E in \in MoveInputs : Turn(in[1], in[2], in[3]) /\ UNCHANGED script

Use == \E in \in UseInputs : Turn(in[1], in[2], in[3]) /\ UNCHANGED script

ShowInventory == \E in \in InventoryInputs : Turn(in[1], in[2], in[3]) /\ UNCHANGED script

Quit == \E in \in QuitInputs : Turn(in[1], in[2], in[3]) /\ UNCHANGED script

Help == \E in \in HelpInputs : Turn(in[1], in[2], in[3]) /\ UNCHANGED script

Unknown == \E in \in UnknownInputs : Turn(in[1], in[2], in[3]) /\ UNCHANGED script

Next == Look \/ Take \/ Move \/ Use \/ ShowInventory \/ Quit \/ Help \/ Unknown

Spec == Init /\ [][Next]_vars

----------------------------------------------------------------------------
(* Scripted runs: the loop is fed the turns of `script` one after another. *)
(* A scripted turn is the set of inputs that may be typed in it; a prompt  *)
(* the program does not reach leaves its line unread.                      *)

PlayTurn ==
    /\ script.turns # <<>>
    /\ \E in \in Head(script.turns) : Turn(in[1], in[2], in[3])
    /\ script' = [script EXCEPT !.turns = Tail(@)]

Typed(cmd, line, yn) == {<<cmd, line, yn>>}

\* take the n-th listed item
TakeNo(n) == Typed("take", ToString(n), NotRead)

\* move along the n-th listed exit, agreeing to try an item if it is blocked
MoveNo(n) == Typed("move", ToString(n), "y")

\* use the n-th listed inventory item
UseNo(n) == Typed("use", ToString(n), NotRead)

\* Cell -> Corridor -> Storage Room (Rope) -> Corridor -> Guard Room ->
\* Kitchen (Torch) -> Armory, then the Crowbar on the strongbox
ChestTurns ==
    << TakeNo(1), MoveNo(1), MoveNo(2), TakeNo(1), MoveNo(1), MoveNo(1),
       MoveNo(2), TakeNo(1), MoveNo(2), UseNo(1) >>

\* ... then take the Cell Key, walk back (Kitchen, Guard Room, Corridor; no
\* exit of the world leads into the Dungeon Cell), unlock the cell door and
\* walk through it
CellDoorTurns ==
    ChestTurns \o << TakeNo(1), MoveNo(1), MoveNo(1), MoveNo(1), MoveNo(1), MoveNo(1) >>

\* the whole game: both keys, the Library (Map, Book), the Study (Note), the
\* Secret Passage (Gem), the Treasury (Gold Coin), then the pit, the
\* Courtyard gate and the Exit Gate
PlaythroughTurns ==
    ChestTurns \o
    << TakeNo(1), TakeNo(1), MoveNo(1), MoveNo(1), MoveNo(1),
       MoveNo(2), MoveNo(2), MoveNo(2), TakeNo(1), TakeNo(1),
       MoveNo(2), TakeNo(1), MoveNo(2), TakeNo(1),
       MoveNo(1), MoveNo(1), MoveNo(1), MoveNo(1), MoveNo(1), MoveNo(2), MoveNo(2), MoveNo(2),
       Typed("look", NotRead, NotRead), TakeNo(1),
       MoveNo(1), MoveNo(1), MoveNo(1), MoveNo(1), MoveNo(2), MoveNo(2), MoveNo(2), MoveNo(2),
       MoveNo(2), MoveNo(2), MoveNo(2), MoveNo(1), MoveNo(1) >>

Scenarios ==
    { [scenario |-> "chest", turns |-> ChestTurns],
      [scenario |-> "cell door", turns |-> CellDoorTurns],
      [scenario |-> "playthrough", turns |-> PlaythroughTurns] }

InitPlaythrough ==
    /\ \E name \in Names : player = Player(name, DefaultMaxInventory)
    /\ world = create_world
    /\ running = "running"
    /\ command = NotRead
    /\ choice = NotRead
    /\ answer = NotRead
    /\ error = NoError
    /\ output = <<>>
    /\ script \in Scenarios

Playthrough == InitPlaythrough /\ [][PlayTurn]_vars

\* a scripted run has been fed all its turns
Played(scenario) == script.scenario = scenario /\ script.turns = <<>>

----------------------------------------------------------------------------
(* The handlers called once on a session in progress: the player stands in *)
(* any room but the Exit Gate (the loop ends there), holds any items that  *)
(* fit the bag, each taken out of the room create_world puts it in, and    *)
(* the obstacle of the room the player stands in may have been cleared.    *)
(* The two keys exist once the strongbox is open, and the cell door is     *)
(* open once the player stands outside the Dungeon Cell.                   *)

ItemOrder ==
    <<"Crowbar", "Rope", "Torch", "Food", "Map", "Book", "Note", "Gem",
      "Gold Coin", "Cell Key", "Iron Key">>

Items == {ItemOrder[i] : i \in DOMAIN ItemOrder}

Keys == {"Cell Key", "Iron Key"}

Without(lst, held) == SelectSeq(lst, LAMBDA x : x \notin held)

ArrangedWorld(loc, held, cleared) ==
    LET open == (held \cap Keys # {}) \/ (loc = "Armory" /\ cleared)
        w == create_world
    IN  [r \in Rooms |->
            [w[r] EXCEPT
                !.items = Without(IF r = "Armory" /\ open
                                  THEN @ \o <<"Cell Key", "Iron Key">> ELSE @, held),
                !.obstacle = IF \/ r = loc /\ cleared
                                \/ r = "Armory" /\ open
                                \/ r = "Dungeon Cell" /\ loc # "Dungeon Cell"
                             THEN NoObstacle ELSE @]]

ArrangedPlayer(name, loc, held) ==
    [Player(name, DefaultMaxInventory) EXCEPT
        !.location = loc,
        !.inventory = SelectSeq(ItemOrder, LAMBDA x : x \in held)]

AnyTurn ==
    LookInputs \cup TakeInputs \cup MoveInputs \cup UseInputs \cup InventoryInputs
        \cup QuitInputs \cup HelpInputs \cup UnknownInputs

InitHandlers ==
    /\ \E loc \in Rooms \ {"Exit Gate"}, held \in SUBSET Items, cleared \in BOOLEAN :
          /\ Cardinality(held) <= DefaultMaxInventory
          /\ cleared => create_world[loc].obstacle # NoObstacle
          /\ player = ArrangedPlayer("1", loc, held)
          /\ world = ArrangedWorld(loc, held, cleared)
    /\ running = "running"
    /\ command = NotRead
    /\ choice = NotRead
    /\ answer = NotRead
    /\ error = NoError
    /\ output = <<>>
    /\ script = [scenario |-> "call", turns |-> <<AnyTurn>>]

Handlers == InitHandlers /\ [][PlayTurn]_vars

----------------------------------------------------------------------------
(* The end of the game: a session that has reached the Courtyard, played   *)
(* on at the console until the player quits or walks through the gate.     *)

InitEndgame ==
    /\ \E held \in SUBSET Items, cleared \in BOOLEAN :
          /\ Cardinality(held) <= DefaultMaxInventory
          /\ player = ArrangedPlayer("1", "Courtyard", held)
          /\ world = ArrangedWorld("Courtyard", held, cleared)
    /\ running = "running"
    /\ command = NotRead
    /\ choice = NotRead
    /\ answer = NotRead
    /\ error = NoError
    /\ output = <<>>
    /\ script = Interactive

Endgame == InitEndgame /\ [][Next]_vars

----------------------------------------------------------------------------
(* The end-to-end scenarios. *)

\* Under Spec: whatever is typed, the player never leaves the Dungeon Cell.
\* Its door needs the Cell Key, which lies in the strongbox of the Armory.
NeverLeavesDungeonCell ==
    /\ player.location = "Dungeon Cell"
    /\ world["Dungeon Cell"].obstacle # NoObstacle
    /\ running # "victory"

\* C1: the documented playthrough, typed from the start of main, ends with
\* the player in the Exit Gate and the loop ended by victory.
PlaythroughEndsInVictory ==
    Played("playthrough") => player.location = "Exit Gate" /\ running = "victory"

\* C2: the walk to the Armory with Rope and Torch, then the Crowbar on the
\* strongbox, ends in the Armory with the obstacle gone, both keys among the
\* Armory's items and the Crowbar out of the inventory.
ChestScenarioOpensChest ==
    Played("chest") =>
        /\ player.location = "Armory"
        /\ world["Armory"].obstacle = NoObstacle
        /\ In("Cell Key", world["Armory"].items)
        /\ In("Iron Key", world["Armory"].items)
        /\ ~has_item(player, "Crowbar")

\* C3: with the Cell Key obtained and the player back in the Dungeon Cell,
\* moving forward ends with the cell door open and the player in the Corridor.
CellDoorScenarioReachesCorridor ==
    Played("cell door") =>
        /\ world["Dungeon Cell"].obstacle = NoObstacle
        /\ player.location = "Corridor"

----------------------------------------------------------------------------
(* The handlers' contracts, stated on one turn: unprimed is the state the  *)
(* turn starts in, primed the state it ends in.                            *)

\* the room the player stands in
Here == world[player.location]

\* the items a selection line picks from a listed sequence: the 1-based
\* number as listed, or a negative number counted from the end
Chosen(lst, line) ==
    {lst[j] : j \in {k \in DOMAIN lst :
                        \/ line = ToString(k)
                        \/ k < Len(lst) /\ line = ToString(k - Len(lst))}}

\* this turn uses `item`: picked at the use prompt, or used for the player
\* after a blocked move answered with yes
UsesItem(item) ==
    \/ command' = "use" /\ item \in Chosen(player.inventory, choice')
    \/ /\ command' = "move"
       /\ answer' \in {"y", "Y"}
       /\ Here.obstacle # NoObstacle
       /\ item = Here.obstacle.required_item
       /\ \E i \in DOMAIN player.inventory : player.inventory[i] = item

\* C4: with room in the inventory, a take with selection i in 1..n puts the
\* i-th item of the room into the inventory and takes it out of the room's
\* list; the location, the obstacles and the other rooms' items stay.
TakeMovesItemToInventory ==
    [][\A i \in DOMAIN Here.items :
          (/\ command' = "take"
           /\ choice' = ToString(i)
           /\ Len(player.inventory) < player.max_inventory)
          => /\ \E k \in DOMAIN player'.inventory : player'.inventory[k] = Here.items[i]
             /\ \A k \in DOMAIN world'[player.location].items :
                   world'[player.location].items[k] # Here.items[i]
             /\ player'.location = player.location
             /\ \A r \in Rooms : world'[r].obstacle = world[r].obstacle
             /\ \A r \in Rooms \ {player.location} : world'[r].items = world[r].items]_vars

\* a take with selection 2 has picked an item up
TakenSecondItem ==
    command = "take" /\ choice = "2" /\ In("You picked up", output)

\* C5: with the inventory at capacity, a take with a valid selection leaves
\* the room's items and the inventory as they were, InventoryFullError is
\* caught and reported, and the loop keeps running.
TakeWhenFullChangesNothing ==
    [][\A i \in DOMAIN Here.items :
          (/\ command' = "take"
           /\ choice' = ToString(i)
           /\ Len(player.inventory) = player.max_inventory)
          => /\ world' = world
             /\ player' = player
             /\ error' = InventoryFullError
             /\ running' = "running"]_vars

\* a take has been refused because the bag is full
TakeRefused ==
    /\ command = "take"
    /\ error = InventoryFullError
    /\ Len(player.inventory) = player.max_inventory
    /\ Here.items # <<>>

\* C6: using the item an obstacle requires, in its room, clears the obstacle;
\* a Cell Key or Iron Key is then gone from the inventory, a Torch, Rope or
\* Gem is still in it.
UseRequiredItemClearsObstacle ==
    [][\A item \in Items :
          (/\ UsesItem(item)
           /\ Here.obstacle # NoObstacle
           /\ Here.obstacle.required_item = item)
          => /\ world'[player.location].obstacle = NoObstacle
             /\ item \in {"Cell Key", "Iron Key"} =>
                   \A k \in DOMAIN player'.inventory : player'.inventory[k] # item
             /\ item \in {"Torch", "Rope", "Gem"} =>
                   \E k \in DOMAIN player'.inventory : player'.inventory[k] = item]_vars

\* the guard of the Guard Room has been distracted with the Torch, which the
\* player still holds
TorchUsedAndKept ==
    /\ command = "use"
    /\ player.location = "Guard Room"
    /\ In("used successfully", output)
    /\ world["Guard Room"].obstacle = NoObstacle
    /\ has_item(player, "Torch")

\* C7: using an item that the obstacle of the room does not require, or any
\* item where there is no obstacle, changes neither the player (inventory,
\* location) nor the world (items, obstacles).
UseWrongItemChangesNothing ==
    [][\A item \in Items :
          (/\ command' = "use"
           /\ item \in Chosen(player.inventory, choice')
           /\ (Here.obstacle = NoObstacle \/ Here.obstacle.required_item # item))
          => player' = player /\ world' = world]_vars

\* an item has been used against an obstacle that needs another one
WrongItemUsed ==
    /\ command = "use"
    /\ output = <<"nothing happened">>
    /\ Here.obstacle # NoObstacle
    /\ Chosen(player.inventory, choice) # {}

\* C8: a move along the exit chosen is blocked (the obstacle's message is
\* shown and the player is asked about using an item) exactly if the room
\* has an obstacle whose direction is that of the exit or is absent; a move
\* that is not blocked puts the player in the exit's target and changes
\* neither the inventory nor the world.
MoveBlockedIffObstacleInTheWay ==
    [][\A i \in DOMAIN Here.exits :
          (command' = "move" /\ choice' = ToString(i))
          => LET inTheWay ==
                    /\ Here.obstacle # NoObstacle
                    /\ Here.obstacle.direction \in {Here.exits[i][1], None}
             IN  /\ (answer' # NotRead) <=> inTheWay
                 /\ In("obstacle message", output') <=> inTheWay
                 /\ ~inTheWay =>
                       /\ player'.location = Here.exits[i][2]
                       /\ player'.inventory = player.inventory
                       /\ world' = world]_vars

\* the way back out of the Armory has been blocked by the strongbox
ArmoryBackBlocked ==
    /\ command = "move"
    /\ choice = "1"
    /\ answer # NotRead
    /\ player.location = "Armory"
    /\ world["Armory"].obstacle # NoObstacle

\* C9: a move whose direction is blocked leaves the player where they are in
\* that turn, whatever the answer and whether or not the obstacle is cleared.
BlockedMoveKeepsLocation ==
    [][\A i \in DOMAIN Here.exits :
          (/\ command' = "move"
           /\ choice' = ToString(i)
           /\ Here.obstacle # NoObstacle
           /\ Here.obstacle.direction \in {Here.exits[i][1], None})
          => player'.location = player.location]_vars

\* a blocked move has cleared the obstacle with the item required
BlockedMoveClearedObstacle ==
    /\ command = "move"
    /\ answer \in {"y", "Y"}
    /\ In("used successfully", output)
    /\ Here.obstacle = NoObstacle

\* C10: the inventory never holds more items than the player's capacity.
InventoryWithinCapacity ==
    Len(player.inventory) <= player.max_inventory

\* a take has filled the bag
TakeFilledBag ==
    /\ command = "take"
    /\ In("You picked up", output)
    /\ Len(player.inventory) = player.max_inventory

----------------------------------------------------------------------------
(* Integrity of the world, permanence of cleared obstacles, the strongbox. *)

\* every item name of the game: the rooms' items at the start and the two
\* keys that opening the strongbox produces
GameItems ==
    UNION {{create_world[r].items[i] : i \in DOMAIN create_world[r].items} : r \in Rooms}
        \cup {"Cell Key", "Iron Key"}

\* C11: the player's location is a room of the world, every exit of every
\* room leads to a room of the world, and every obstacle present requires an
\* item that exists in the game.
ReferentialIntegrity ==
    /\ player.location \in DOMAIN world
    /\ \A r \in DOMAIN world :
          /\ \A i \in DOMAIN world[r].exits : world[r].exits[i][2] \in DOMAIN world
          /\ world[r].obstacle # NoObstacle => world[r].obstacle.required_item \in GameItems

\* the player has walked through an exit
WalkedIntoTreasury ==
    /\ command = "move"
    /\ In("You move", output)
    /\ player.location = "Treasury"

\* C12: an obstacle that is absent stays absent: no turn creates or restores
\* an obstacle in any room.
ObstaclesStayCleared ==
    [][\A r \in Rooms :
          world[r].obstacle = NoObstacle => world'[r].obstacle = NoObstacle]_vars

\* a look in the Treasury, its guard gone before and the Gem not held
LookedAtUnguardedTreasury ==
    /\ command = "look"
    /\ player.location = "Treasury"
    /\ world["Treasury"].obstacle = NoObstacle
    /\ ~has_item(player, "Gem")

\* C13: the Crowbar used in the Armory while the chest is there opens it:
\* the obstacle is gone, Cell Key and Iron Key are appended to the Armory's
\* items, the Crowbar leaves the inventory, the player stays, and it is the
\* strongbox case that answers, not the generic one.  The Crowbar used in
\* another room, or with the chest open, adds no item to any room and stays
\* in the inventory.
CrowbarOpensStrongboxOnly ==
    [][/\ (/\ UsesItem("Crowbar")
           /\ player.location = "Armory"
           /\ world["Armory"].obstacle # NoObstacle)
          => /\ world'["Armory"].obstacle = NoObstacle
             /\ world'["Armory"].items = world["Armory"].items \o <<"Cell Key", "Iron Key">>
             /\ \A k \in DOMAIN player'.inventory : player'.inventory[k] # "Crowbar"
             /\ player'.location = player.location
             /\ In("You pry open the strongbox", output')
             /\ ~In("used successfully", output')
       /\ (/\ command' = "use"
           /\ "Crowbar" \in Chosen(player.inventory, choice')
           /\ (player.location # "Armory" \/ world["Armory"].obstacle = NoObstacle))
          => /\ \A r \in Rooms : world'[r].items = world[r].items
             /\ \E k \in DOMAIN player'.inventory : player'.inventory[k] = "Crowbar"]_vars

\* the strongbox has been opened
StrongboxOpened ==
    /\ In("You pry open the strongbox", output)
    /\ player.location = "Armory"
    /\ world["Armory"].items = <<"Cell Key", "Iron Key">>
    /\ world["Armory"].obstacle = NoObstacle
    /\ ~has_item(player, "Crowbar")

----------------------------------------------------------------------------
(* Errors, the end of the loop, selections out of range, the commands that *)
(* only display.                                                           *)

\* the command lines main knows
KnownCommands == {"look", "take", "move", "use", "inventory", "i", "quit", "q", "help", "h"}

\* C14: an unknown command, and a move selection that is not a number or is
\* a number other than 0 outside 1..(number of exits), raise
\* InvalidCommandError, change neither player nor world, and leave the loop
\* running.
BadCommandIsReportedAndHarmless ==
    [][(\/ lower(command') \notin KnownCommands
        \/ /\ command' = "move"
           /\ choice' # NotRead
           /\ choice' \notin {ToString(i) : i \in 0..Len(Here.exits)})
       => /\ error' = InvalidCommandError
          /\ player' = player
          /\ world' = world
          /\ running' = "running"]_vars

\* a move has been refused for a negative selection
NegativeExitRefused ==
    /\ command = "move"
    /\ choice = "-1"
    /\ error = InvalidCommandError
    /\ running = "running"

BlockedMoveUsesRequiredItem ==
    [][(/\ command' = "move"
        /\ answer' \in {"y", "Y"}
        /\ Here.obstacle # NoObstacle)
       => IF \E k \in DOMAIN player.inventory :
                 player.inventory[k] = Here.obstacle.required_item
          THEN /\ world'[player.location].obstacle = NoObstacle
               /\ choice' \in {ToString(i) : i \in DOMAIN Here.exits}
               /\ ~In("Invalid choice", output')
          ELSE player' = player /\ world' = world]_vars

\* the guard of the Treasury has let the player with the Gem pass
TreasuryGuardClearedByMove ==
    /\ command = "move"
    /\ answer \in {"y", "Y"}
    /\ player.location = "Treasury"
    /\ world["Treasury"].obstacle = NoObstacle
    /\ In("used successfully", output)
    /\ has_item(player, "Gem")

\* C17: at the prompt of take (n items in the room) and of use (n items
\* held), a number outside 1..n changes neither the inventory nor any
\* room's items nor any obstacle.
SelectionOutOfRangeChangesNothing ==
    [][(/\ command' \in {"take", "use"}
        /\ choice' # NotRead
        /\ \E k \in Numbers :
              /\ choice' = ToString(k)
              /\ k \notin 1..(IF command' = "take" THEN Len(Here.items)
                              ELSE Len(player.inventory)))
       => /\ player'.inventory = player.inventory
          /\ \A r \in Rooms : world'[r].items = world[r].items
          /\ \A r \in Rooms : world'[r].obstacle = world[r].obstacle]_vars

\* C18: look, inventory and help change neither the player nor any room's
\* items; the one obstacle they change is that of the Treasury, cleared by a
\* look there with the Gem held.
DisplayCommandsChangeOnlyTreasuryGuard ==
    [][lower(command') \in {"look", "inventory", "i", "help", "h"}
       => /\ player' = player
          /\ \A r \in Rooms : world'[r].items = world[r].items
          /\ \A r \in Rooms :
                world'[r].obstacle =
                    IF /\ lower(command') = "look"
                       /\ r = "Treasury"
                       /\ player.location = "Treasury"
                       /\ \E k \in DOMAIN player.inventory : player.inventory[k] = "Gem"
                    THEN NoObstacle
                    ELSE world[r].obstacle]_vars

\* a look in the Treasury with the Gem has sent the guard away
LookMesmerizedGuard ==
    /\ lower(command) = "look"
    /\ player.location = "Treasury"
    /\ In("The guard is mesmerized", output)
    /\ world["Treasury"].obstacle = NoObstacle
    /\ has_item(player, "Gem")

----------------------------------------------------------------------------
(* Items are unique; the cell door. *)

\* the places where an item lies: <<room, index>> and <<"inventory", index>>
AllPlaces ==
    UNION {{<<r, i>> : i \in DOMAIN world[r].items} : r \in Rooms}
        \cup {<<"inventory", i>> : i \in DOMAIN player.inventory}

\* the name of the item that lies at a place
ItemAt(p) == IF p[1] = "inventory" THEN player.inventory[p[2]] ELSE world[p[1]].items[p[2]]

\* C19: every item name occurs at most once in all the rooms' items and the
\* inventory together.
ItemsAreUnique ==
    \A p, q \in AllPlaces : ItemAt(p) = ItemAt(q) => p = q

\* the Cell Key has been taken out of the Armory
TookCellKey ==
    /\ command = "take"
    /\ In("You picked up", output)
    /\ player.location = "Armory"
    /\ has_item(player, "Cell Key")
    /\ ~In("Cell Key", world["Armory"].items)

\* C20: outside the Dungeon Cell the cell door is open; and the door goes
\* from locked to open only in a turn that starts with the player in the
\* Dungeon Cell holding the Cell Key.
CellDoorOpenOutsideCell ==
    /\ [](player.location # "Dungeon Cell" => world["Dungeon Cell"].obstacle = NoObstacle)
    /\ [][(/\ world["Dungeon Cell"].obstacle # NoObstacle
           /\ world'["Dungeon Cell"].obstacle = NoObstacle)
          => /\ player.location = "Dungeon Cell"
             /\ \E k \in DOMAIN player.inventory : player.inventory[k] = "Cell Key"]_vars

\* the cell door has been unlocked with the Cell Key
CellDoorUnlocked ==
    /\ player.location = "Dungeon Cell"
    /\ world["Dungeon Cell"].obstacle = NoObstacle
    /\ In("used successfully", output)
    /\ ~has_item(player, "Cell Key")

====
